---- MODULE Spec2Model ----
(***************************************************************************)
(* The two-round tool-calling flow of the three scripts in tool-calling/:  *)
(*   fastmcp  fastmcp_groq_weather_server.py   get_weather_with_groq       *)
(*   groq     groq_weather_function_call.py    call_model_with_tools       *)
(*   stock    openai_stock_function_call.py    call_model_with_tools       *)
(* One behaviour is one run of one script on one question: module import   *)
(* (client construction), the first chat-completion call, the handling of  *)
(* the tool calls of the reply, the second chat-completion call.  The      *)
(* model's replies and the outcome of every external lookup are chosen     *)
(* nondeterministically.  A Python exception that nothing catches ends the *)
(* run in pc = "raised".                                                   *)
(***************************************************************************)
EXTENDS Integers, Sequences, FiniteSets, TLC

VARIABLES script, env, question, pc, first, second, calls, idx,
          tool_messages, execLog, answer, fault

vars == <<script, env, question, pc, first, second, calls, idx,
          tool_messages, execLog, answer, fault>>

\* Largest number of tool calls carried by one model reply.
MaxCalls == 2

Scripts == {"fastmcp", "groq", "stock"}

\* Python's None, as a value distinct from every text the model can send.
None == "<None>"

Questions == {"What is the weather like in Pune?"}
Contents == {None, "", "It is sunny."}
ToolNames == {"get_current_weather", "get_current_stock_price"}
ParamKeys == {"location", "stock_symbol"}
ArgValues == {"", "Pune"}

\* function.arguments of a tool call, as the token sequence of its text.
ObjectRaw == {<<"{", k, ":", v, "}">> : k \in ParamKeys, v \in ArgValues}
TruncatedRaw == {<<"{", "location", ":", "Pune">>}
RawArguments == ObjectRaw \cup TruncatedRaw

CallId(i) == <<"call", i>>

ToolCall(i, name, arguments) ==
  [id |-> CallId(i), type |-> "function",
   function |-> [name |-> name, arguments |-> arguments]]

ToolCallSeqs(n) ==
  {[i \in 1..n |-> ToolCall(i, f[i].name, f[i].arguments)] :
     f \in [1..n -> [name : ToolNames, arguments : RawArguments]]}

\* choices[0].message of a chat-completion response.
Replies ==
  [content : Contents, tool_calls : UNION {ToolCallSeqs(n) : n \in 0..MaxCalls}]

\* A second reply may carry tool calls as well; the code never reads them.
SecondReplies ==
  [content : Contents,
   tool_calls : {<<>>, <<ToolCall(1, "get_current_weather",
                                  <<"{", "location", ":", "Pune", "}">>)>>}]

NoReply == [content |-> None, tool_calls |-> <<>>]
NoFault == [exc |-> "none", req |-> 0, origin |-> "none"]
NoAnswer == "<nothing surfaced>"

-----------------------------------------------------------------------------
(* Pure helpers *)

\* json.loads on function.arguments: an object with one member, or a
\* JSONDecodeError.
json_loads(raw) ==
  IF Len(raw) = 5 /\ raw[1] = "{" /\ raw[3] = ":" /\ raw[5] = "}"
  THEN [ok |-> TRUE, value |-> (raw[2] :> raw[4])]
  ELSE [ok |-> FALSE, value |-> <<>>]

\* json.dumps: the text of an object.
json_dumps(obj) == <<"json", obj>>

\* str() as applied by print().
py_str(v) == IF v = None THEN "None" ELSE v

\* Python truthiness of an Optional[str].
Truthy(v) == v # None /\ v # ""

DeclaredTool(s) ==
  IF s = "stock" THEN "get_current_stock_price" ELSE "get_current_weather"

Param(s) == IF s = "stock" THEN "stock_symbol" ELSE "location"

\* The tool declarations attached to the first call.
tools(s) ==
  <<[type |-> "function",
     function |-> [name |-> DeclaredTool(s), required |-> <<Param(s)>>]]>>

require_env(present) ==
  IF present THEN [raised |-> FALSE, exc |-> "none"]
  ELSE [raised |-> TRUE, exc |-> "EnvironmentError"]

initial_messages(s, q) ==
  IF s = "fastmcp"
  THEN <<[role |-> "user", content |-> q]>>
  ELSE <<[role |-> "system",
          content |-> IF s = "groq" THEN "weather assistant"
                      ELSE "financial assistant"],
         [role |-> "user", content |-> q]>>

-----------------------------------------------------------------------------
(* Tool executors.  The result says whether the body was entered, whether  *)
(* it raised, what it returned and how many network calls it issued.       *)

\* What a call that raised leaves in place of a returned text.
NoValue == <<"none", [raised |-> "yes"]>>

Returned(value, n) ==
  [entered |-> TRUE, raised |-> FALSE, exc |-> "none", value |-> value,
   netcalls |-> n]

Raised(exc, n) ==
  [entered |-> TRUE, raised |-> TRUE, exc |-> exc, value |-> NoValue,
   netcalls |-> n]

NotEntered ==
  [entered |-> FALSE, raised |-> TRUE, exc |-> "TypeError",
   value |-> NoValue,
   netcalls |-> 0]

WeatherOutcomes == {"timeout", "http_error", "not_json", "missing_fields", "ok"}
StockOutcomes == {"exception", "empty", "ok"}
LookupOutcomes(s) == IF s = "stock" THEN StockOutcomes ELSE WeatherOutcomes

\* requests.get .. json.dumps(weather), the same in both weather scripts.
WeatherLookup(location, outcome) ==
  CASE outcome \in {"timeout", "http_error"} ->
         Returned(json_dumps([error |-> "OpenWeatherMap request failed"]), 1)
    [] outcome = "not_json" -> Raised("requests.JSONDecodeError", 1)
    [] outcome = "missing_fields" -> Raised("KeyError", 1)
    [] OTHER ->
         Returned(json_dumps([location |-> location,
                              description |-> "live"]), 1)

get_current_weather_fastmcp(location, e, outcome) ==
  IF ~e.data_key
  THEN Returned(json_dumps([location |-> location,
                            description |-> "partly cloudy (demo)",
                            note |-> "Set OPENWEATHER_API_KEY for real data."]),
                0)
  ELSE WeatherLookup(location, outcome)

get_current_weather_groq(location, e, outcome) ==
  IF require_env(e.data_key).raised
  THEN Raised(require_env(e.data_key).exc, 0)
  ELSE WeatherLookup(location, outcome)

\* get_current_stock_price without the guard on an empty symbol.
get_current_stock_price_NoGuard(stock_symbol, outcome) ==
  CASE outcome = "exception" ->
         Returned(json_dumps([error |-> "Unable to fetch data for",
                              stock_symbol |-> stock_symbol]), 1)
    [] outcome = "empty" ->
         Returned(json_dumps([error |-> "No pricing data returned for",
                              stock_symbol |-> stock_symbol]), 1)
    [] OTHER ->
         Returned(json_dumps([stock_symbol |-> stock_symbol,
                              close_price |-> "close"]), 1)

get_current_stock_price(stock_symbol, outcome) ==
  IF stock_symbol = ""
  THEN Returned(json_dumps([error |-> "Missing stock_symbol argument."]), 0)
  ELSE CASE outcome = "exception" ->
              Returned(json_dumps([error |-> "Unable to fetch data for",
                                   stock_symbol |-> stock_symbol]), 1)
         [] outcome = "empty" ->
              Returned(json_dumps([error |-> "No pricing data returned for",
                                   stock_symbol |-> stock_symbol]), 1)
         [] OTHER ->
              Returned(json_dumps([stock_symbol |-> stock_symbol,
                                   close_price |-> "close"]), 1)

\* executor(**args): the keyword arguments must be exactly the parameter.
CallTool(s, args, e, outcome) ==
  IF DOMAIN args # {Param(s)} THEN NotEntered
  ELSE CASE s = "fastmcp" ->
              get_current_weather_fastmcp(args[Param(s)], e, outcome)
         [] s = "groq" -> get_current_weather_groq(args[Param(s)], e, outcome)
         [] OTHER -> get_current_stock_price(args[Param(s)], outcome)

IsErrorPayload(content) == "error" \in DOMAIN content[2]

-----------------------------------------------------------------------------
(* The orchestrators *)

\* The request the loop is at.
call == first.tool_calls[idx]

\* Only the two scripts compare the requested name with the declared tool.
ChecksName(s) == s # "fastmcp"

\* ToolMessage with the id of the first request instead of the current one.
ToolMessage_FirstId(s, c, output) ==
  IF s = "fastmcp"
  THEN [role |-> "tool", tool_call_id |-> first.tool_calls[1].id,
        content |-> output]
  ELSE [role |-> "tool", tool_call_id |-> first.tool_calls[1].id,
        name |-> c.function.name, content |-> output]

\* The tool-result message built for a request.
ToolMessage(s, c, output) ==
  IF s = "fastmcp"
  THEN [role |-> "tool", tool_call_id |-> c.id, content |-> output]
  ELSE [role |-> "tool", tool_call_id |-> c.id, name |-> c.function.name,
        content |-> output]

\* EchoedCalls echoing every invocation in the FastMCP server as well.
EchoedCalls_All(s, tcs) == tcs

\* The invocations echoed in the assistant message of the second call.
EchoedCalls(s, tcs) == IF s = "fastmcp" THEN <<tcs[1]>> ELSE tcs

follow_up_messages(s, q, reply, tms) ==
  initial_messages(s, q)
    \o <<[role |-> "assistant", content |-> reply.content,
          tool_calls |-> EchoedCalls(s, reply.tool_calls)]>>
    \o tms

\* SecondCallTools with the declarations attached again.
SecondCallTools_Reattached(s) == tools(s)

\* tools / tool_choice of the second chat-completion call.
SecondCallTools(s) == <<>>
SecondCallToolChoice(s) == "absent"

\* FirstAnswer without the placeholder of the FastMCP server.
FirstAnswer_NoPlaceholder(s, content) == py_str(content)

\* What the single-round exit surfaces.
FirstAnswer(s, content) ==
  IF s = "fastmcp"
  THEN IF Truthy(content) THEN content
       ELSE "Model did not return any content."
  ELSE py_str(content)

\* What the exit after a loop that produced no tool message surfaces.
EarlyStopAnswer(s, content) ==
  IF s = "groq"
  THEN "No tool output to send back to the model; stopping here."
  ELSE py_str(content)

FinalAnswer(s, content) == IF s = "fastmcp" THEN content ELSE py_str(content)

\* Where the run stands once the first reply is in.
AfterFirst(s, tcs) ==
  IF s = "stock"
  THEN IF Len(tcs) = 0 THEN "collected" ELSE "loop"
  ELSE IF Len(tcs) = 0 THEN "no_tool" ELSE "loop"

\* AfterRequest leaving the loop after the first request it deals with.
AfterRequest_StopsEarly(s, i, tcs) ==
  IF s = "fastmcp" THEN "call2" ELSE "collected"

\* Where the run stands once request i has been dealt with.
AfterRequest(s, i, tcs) ==
  IF s = "fastmcp" THEN "call2"
  ELSE IF i < Len(tcs) THEN "loop" ELSE "collected"

Init ==
  /\ script \in Scripts
  /\ env \in [model_key : BOOLEAN, data_key : BOOLEAN]
  /\ (script = "stock" => env.data_key)
  /\ question \in Questions
  /\ pc = "start"
  /\ first = NoReply
  /\ second = NoReply
  /\ calls = <<>>
  /\ idx = 0
  /\ tool_messages = <<>>
  /\ execLog = <<>>
  /\ answer = NoAnswer
  /\ fault = NoFault

\* Module import: client = Groq/OpenAI(api_key=require_env(...)).
Startup ==
  /\ pc = "start"
  /\ IF require_env(env.model_key).raised
     THEN /\ pc' = "raised"
          /\ fault' = [exc |-> require_env(env.model_key).exc, req |-> 0,
                       origin |-> "startup"]
     ELSE /\ pc' = "call1"
          /\ UNCHANGED fault
  /\ UNCHANGED <<script, env, question, first, second, calls, idx,
                 tool_messages, execLog, answer>>

\* The first chat-completion call and its reply.
FirstCall ==
  /\ pc = "call1"
  /\ \E r \in Replies :
       /\ first' = r
       /\ pc' = AfterFirst(script, r.tool_calls)
       /\ idx' = IF Len(r.tool_calls) = 0 THEN 0 ELSE 1
  /\ calls' = <<[messages |-> initial_messages(script, question),
                 tools |-> tools(script), tool_choice |-> "auto"]>>
  /\ UNCHANGED <<script, env, question, second, tool_messages, execLog,
                 answer, fault>>

\* if not tool_calls: return / print the content (fastmcp, groq).
NoToolRequested ==
  /\ pc = "no_tool"
  /\ answer' = FirstAnswer(script, first.content)
  /\ pc' = "done"
  /\ UNCHANGED <<script, env, question, first, second, calls, idx,
                 tool_messages, execLog, fault>>

\* if call.function.name != <declared>: continue (groq, stock).
SkipUnknownTool ==
  /\ pc = "loop"
  /\ ChecksName(script)
  /\ call.function.name # DeclaredTool(script)
  /\ pc' = AfterRequest(script, idx, first.tool_calls)
  /\ idx' = idx + 1
  /\ UNCHANGED <<script, env, question, first, second, calls,
                 tool_messages, execLog, answer, fault>>

\* The requests whose arguments the orchestrator goes on to decode.
Decodes ==
  /\ pc = "loop"
  /\ ChecksName(script) => call.function.name = DeclaredTool(script)

\* ArgumentsDecodeError with the failure swallowed and the request skipped.
ArgumentsDecodeError_Swallowed ==
  /\ pc = "loop"
  /\ ChecksName(script) => call.function.name = DeclaredTool(script)
  /\ ~json_loads(call.function.arguments).ok
  /\ pc' = AfterRequest(script, idx, first.tool_calls)
  /\ idx' = idx + 1
  /\ UNCHANGED <<script, env, question, first, second, calls,
                 tool_messages, execLog, answer, fault>>

\* json.loads(call.function.arguments) raises; nothing catches it.
ArgumentsDecodeError ==
  /\ Decodes
  /\ ~json_loads(call.function.arguments).ok
  /\ pc' = "raised"
  /\ fault' = [exc |-> "JSONDecodeError", req |-> idx,
               origin |-> "orchestrator"]
  /\ UNCHANGED <<script, env, question, first, second, calls, idx,
                 tool_messages, execLog, answer>>

\* args = json.loads(...); output = executor(**args); append the message.
ExecuteTool ==
  /\ Decodes
  /\ json_loads(call.function.arguments).ok
  /\ \E outcome \in LookupOutcomes(script) :
       LET args == json_loads(call.function.arguments).value
           r == CallTool(script, args, env, outcome)
           entry == [req |-> idx, args |-> args, raised |-> r.raised,
                     value |-> r.value, netcalls |-> r.netcalls]
       IN /\ execLog' = IF r.entered THEN Append(execLog, entry) ELSE execLog
          /\ IF r.raised
             THEN /\ pc' = "raised"
                  /\ fault' = [exc |-> r.exc, req |-> idx,
                               origin |-> IF r.entered THEN "executor"
                                          ELSE "orchestrator"]
                  /\ UNCHANGED <<idx, tool_messages>>
             ELSE /\ pc' = AfterRequest(script, idx, first.tool_calls)
                  /\ idx' = idx + 1
                  /\ tool_messages' =
                       Append(tool_messages, ToolMessage(script, call, r.value))
                  /\ UNCHANGED fault
  /\ UNCHANGED <<script, env, question, first, second, calls, answer>>

\* if not tool_messages: ... return (groq, stock).
EarlyStop ==
  /\ pc = "collected"
  /\ tool_messages = <<>>
  /\ answer' = EarlyStopAnswer(script, first.content)
  /\ pc' = "done"
  /\ UNCHANGED <<script, env, question, first, second, calls, idx,
                 tool_messages, execLog, fault>>

\* SecondCall asking the model again when the reply carries tool calls.
SecondCall_AsksAgain ==
  /\ \/ pc = "call2"
     \/ pc = "collected" /\ tool_messages # <<>>
  /\ calls' = Append(calls,
                [messages |-> follow_up_messages(script, question, first,
                                                 tool_messages),
                 tools |-> SecondCallTools(script),
                 tool_choice |-> SecondCallToolChoice(script)])
  /\ \E r \in SecondReplies :
       /\ second' = r
       /\ answer' = FinalAnswer(script, r.content)
       /\ pc' = IF r.tool_calls # <<>> /\ Len(calls) < 3 THEN "call2"
                ELSE "done"
  /\ UNCHANGED <<script, env, question, first, idx, tool_messages, execLog,
                 fault>>

\* The second chat-completion call and its reply.
SecondCall ==
  /\ \/ pc = "call2"
     \/ pc = "collected" /\ tool_messages # <<>>
  /\ calls' = Append(calls,
                [messages |-> follow_up_messages(script, question, first,
                                                 tool_messages),
                 tools |-> SecondCallTools(script),
                 tool_choice |-> SecondCallToolChoice(script)])
  /\ \E r \in SecondReplies :
       /\ second' = r
       /\ answer' = FinalAnswer(script, r.content)
  /\ pc' = "done"
  /\ UNCHANGED <<script, env, question, first, idx, tool_messages, execLog,
                 fault>>

Next ==
  \/ Startup
  \/ FirstCall
  \/ NoToolRequested
  \/ SkipUnknownTool
  \/ ArgumentsDecodeError
  \/ ExecuteTool
  \/ EarlyStop
  \/ SecondCall

Spec == Init /\ [][Next]_vars

\* The run is one thread of straight-line code: whatever statement comes
\* next is executed.
FairSpec == Spec /\ WF_vars(Next)

-----------------------------------------------------------------------------
TypeOK ==
  /\ script \in Scripts
  /\ pc \in {"start", "call1", "no_tool", "loop", "collected", "call2",
             "done", "raised"}
  /\ Len(calls) <= 2
  /\ idx \in 0..(MaxCalls + 1)

-----------------------------------------------------------------------------
(* Vocabulary of the properties *)

Terminal == pc \in {"done", "raised"}
Requests == 1..Len(first.tool_calls)
RequestName(i) == first.tool_calls[i].function.name
RequestArgs(i) == first.tool_calls[i].function.arguments
Malformed(i) == ~json_loads(RequestArgs(i)).ok
WellFormed(i) ==
  /\ json_loads(RequestArgs(i)).ok
  /\ DOMAIN json_loads(RequestArgs(i)).value = {Param(script)}
IsToolMessage(m) == m.role = "tool"
\* The tool-result messages of the second call, in the order sent.
SentToolMessages == SelectSeq(calls[2].messages, IsToolMessage)

-----------------------------------------------------------------------------
\* C1 (as stated): after a first reply without tool calls there is exactly
\* one transport call, no executor invocation, and the answer surfaced is
\* the content of that reply, unchanged, also when it is None or "".
C1_Original ==
  (Len(calls) >= 1 /\ first.tool_calls = <<>>) =>
     /\ Len(calls) = 1
     /\ execLog = <<>>
     /\ pc = "done" => answer = first.content

\* C1 (amended): after a first reply without tool calls there is exactly
\* one transport call, no executor invocation and no fault; the answer is
\* the content unchanged when it is a non-empty text; for None or "" the
\* FastMCP server returns its placeholder text and the two scripts print
\* Python's rendering of the content ("None" for None, "" for "").
C1_ZeroTools ==
  (Len(calls) >= 1 /\ first.tool_calls = <<>>) =>
     /\ Len(calls) = 1
     /\ execLog = <<>>
     /\ pc # "raised"
     /\ pc = "done" =>
          answer = CASE first.content \notin {None, ""} -> first.content
                     [] script = "fastmcp" ->
                          "Model did not return any content."
                     [] first.content = None -> "None"
                     [] OTHER -> ""

C1_Witness ==
  /\ pc = "done"
  /\ script = "fastmcp"
  /\ Len(calls) = 1
  /\ first.tool_calls = <<>>
  /\ first.content = None
  /\ answer = "Model did not return any content."

\* C2 (as stated): a run whose first reply holds exactly one request, for
\* the declared tool and with well-formed arguments, ends with two transport
\* calls and one executor invocation, the second call carrying two messages
\* more than the first.
C2_Original ==
  (Terminal /\ Len(first.tool_calls) = 1
     /\ RequestName(1) = DeclaredTool(script) /\ WellFormed(1)) =>
       /\ Len(calls) = 2
       /\ Len(execLog) = 1
       /\ Len(calls[2].messages) = Len(calls[1].messages) + 2

\* C3 (as stated): when every request of the first reply names an
\* undeclared tool, the executor is never invoked, there is no second
\* transport call, and a finished run has the first content as its answer.
C3_Original ==
  (Len(calls) >= 1 /\ Len(first.tool_calls) >= 1
     /\ \A i \in Requests : RequestName(i) # DeclaredTool(script)) =>
       /\ execLog = <<>>
       /\ Len(calls) = 1
       /\ pc = "done" => answer = first.content

\* C4: in the second call, the k-th tool-result message carries the output
\* of the k-th executor invocation and the id of the request whose decoded
\* arguments that invocation received.
C4_ResultIdMatches ==
  Len(calls) = 2 =>
     /\ Len(SentToolMessages) = Len(execLog)
     /\ \A k \in 1..Len(execLog) :
          /\ ~execLog[k].raised
          /\ SentToolMessages[k].content = execLog[k].value
          /\ execLog[k].args = json_loads(RequestArgs(execLog[k].req)).value
          /\ SentToolMessages[k].tool_call_id =
               first.tool_calls[execLog[k].req].id

C4_Witness ==
  /\ Len(calls) = 2
  /\ Len(execLog) = 2
  /\ SentToolMessages[2].tool_call_id = CallId(2)

\* C5 (as stated): when the arguments of any request of the first reply are
\* not valid JSON, the executor is not invoked for that request and there is
\* no second transport call.
C5_Original ==
  \A i \in Requests :
    Malformed(i) =>
      /\ \A k \in 1..Len(execLog) : execLog[k].req # i
      /\ Len(calls) <= 1

\* C5 (amended): the executor is never invoked for a request whose
\* arguments are not valid JSON; when that request is one the orchestrator
\* decodes (a request for the declared tool in the two scripts, the first
\* request in the FastMCP server) there is no second transport call.
C5_MalformedArguments ==
  \A i \in Requests :
    Malformed(i) =>
      /\ \A k \in 1..Len(execLog) : execLog[k].req # i
      /\ (IF script = "fastmcp" THEN i = 1
          ELSE RequestName(i) = DeclaredTool(script)) => Len(calls) <= 1

C5_Witness ==
  /\ pc = "raised"
  /\ fault.exc = "JSONDecodeError"
  /\ fault.req = 2
  /\ Len(execLog) = 1
  /\ Len(calls) = 1

\* C6 (as stated): a failure to decode the arguments of a request never
\* leaves the orchestrator as an uncaught exception, and no executor
\* invocation of the same run has had its result thrown away.
C6_Original ==
  fault.exc = "JSONDecodeError" => (pc # "raised" /\ execLog = <<>>)

C8_Original ==
  (Terminal /\ \E k \in 1..Len(execLog) :
                 ~execLog[k].raised /\ IsErrorPayload(execLog[k].value)) =>
     /\ pc = "done"
     /\ Len(calls) = 2
     /\ \A k \in 1..Len(execLog) :
          (~execLog[k].raised /\ IsErrorPayload(execLog[k].value)) =>
             \E j \in 1..Len(calls[2].messages) :
                /\ calls[2].messages[j].role = "tool"
                /\ calls[2].messages[j].content = execLog[k].value

\* C9 (as stated): every executor invocation ends by returning a JSON
\* object; none raises.
C9_Original ==
  \A k \in 1..Len(execLog) :
    /\ ~execLog[k].raised
    /\ execLog[k].value[1] = "json"

\* C10 (as stated): when a credential the script needs is absent (the model
\* key; for the Groq weather script also OPENWEATHER_API_KEY), no transport
\* call is ever made.
C10_Original ==
  (~env.model_key \/ (script = "groq" /\ ~env.data_key)) => Len(calls) = 0

-----------------------------------------------------------------------------
\* The requests of the first reply that name the declared tool, in order.
RECURSIVE DeclaredFrom(_)
DeclaredFrom(i) ==
  IF i > Len(first.tool_calls) THEN <<>>
  ELSE IF RequestName(i) = DeclaredTool(script)
       THEN <<i>> \o DeclaredFrom(i + 1)
       ELSE DeclaredFrom(i + 1)
DeclaredRequests == DeclaredFrom(1)

\* C11 (as stated): a run that ends with an answer after a first reply of
\* n >= 1 requests, all for the declared tool and well-formed, has invoked
\* the executor n times, once per request in request order, and has sent n
\* tool-result messages in that order.
C11_Original ==
  (pc = "done" /\ Len(first.tool_calls) >= 1
     /\ \A i \in Requests :
          RequestName(i) = DeclaredTool(script) /\ WellFormed(i)) =>
       /\ Len(execLog) = Len(first.tool_calls)
       /\ \A k \in 1..Len(execLog) : execLog[k].req = k
       /\ Len(calls) = 2
       /\ Len(SentToolMessages) = Len(first.tool_calls)
       /\ \A k \in 1..Len(SentToolMessages) :
            SentToolMessages[k].tool_call_id = first.tool_calls[k].id

\* C12 (as stated): after a first reply that mixes requests for the declared
\* tool with requests for other names, the executor is never invoked for an
\* undeclared name, and a run that ends with an answer has made the second
\* call with exactly the results of the declared-tool requests, in order.
C12_Original ==
  (Len(calls) >= 1
     /\ (\E i \in Requests : RequestName(i) = DeclaredTool(script))
     /\ (\E i \in Requests : RequestName(i) # DeclaredTool(script))) =>
       /\ \A k \in 1..Len(execLog) :
            RequestName(execLog[k].req) = DeclaredTool(script)
       /\ pc = "done" =>
            /\ Len(calls) = 2
            /\ Len(SentToolMessages) = Len(DeclaredRequests)
            /\ \A k \in 1..Len(SentToolMessages) :
                 SentToolMessages[k].tool_call_id =
                   first.tool_calls[DeclaredRequests[k]].id

-----------------------------------------------------------------------------
\* C14: whatever the two replies are, also when the second one carries tool
\* calls, a run makes at most two transport calls, makes no executor
\* invocation once the second call is out, and ends (answer or exception).
C14_AtMostTwoRounds ==
  /\ [](Len(calls) <= 2)
  /\ [][Len(calls) = 2 => execLog' = execLog]_vars
  /\ <>Terminal

C14_Witness ==
  /\ pc = "done"
  /\ Len(calls) = 2
  /\ second.tool_calls # <<>>
  /\ Len(execLog) >= 1

\* The requests the executor has been invoked for, in invocation order.
ExecutedRequests == [k \in 1..Len(execLog) |-> execLog[k].req]

\* C15: when the second transport call is out, the first reply is in, the
\* loop over its requests is over, every request the orchestrator executes
\* (each declared one in the two scripts, the first one in the FastMCP
\* server) has had its executor invocation, each invocation has returned
\* and its result is among the messages sent.
C15_RoundTwoAfterTools ==
  Len(calls) = 2 =>
     /\ first.tool_calls # <<>>
     /\ idx = IF script = "fastmcp" THEN 2 ELSE Len(first.tool_calls) + 1
     /\ ExecutedRequests =
          IF script = "fastmcp" THEN <<1>> ELSE DeclaredRequests
     /\ \A k \in 1..Len(execLog) : ~execLog[k].raised
     /\ Len(SentToolMessages) = Len(execLog)

C15_Witness ==
  /\ pc = "done"
  /\ script = "stock"
  /\ Len(calls) = 2
  /\ ExecutedRequests = <<1, 2>>

-----------------------------------------------------------------------------
\* The assistant message of the second call and the ids on both sides.
EchoMessage == calls[2].messages[Len(calls[1].messages) + 1]
EchoedIds == {EchoMessage.tool_calls[j].id : j \in 1..Len(EchoMessage.tool_calls)}
ResultIds ==
  {SentToolMessages[k].tool_call_id : k \in 1..Len(SentToolMessages)}

\* C16 (as stated): the messages of the second call are the messages of the
\* first call, then one assistant message that echoes the tool invocations
\* of the first reply verbatim, then tool-result messages only.
C16_Original ==
  Len(calls) = 2 =>
     LET m1 == calls[1].messages
         m2 == calls[2].messages
     IN /\ Len(m2) > Len(m1)
        /\ SubSeq(m2, 1, Len(m1)) = m1
        /\ m2[Len(m1) + 1].role = "assistant"
        /\ m2[Len(m1) + 1].tool_calls = first.tool_calls
        /\ \A j \in (Len(m1) + 2)..Len(m2) : m2[j].role = "tool"

\* C17 (as stated): every tool-result message of the second call has role
\* "tool", a tool_call_id, and a name equal to the tool name of the request
\* with that id.
C17_Original ==
  Len(calls) = 2 =>
     \A k \in 1..Len(SentToolMessages) :
        LET m == SentToolMessages[k]
        IN /\ m.role = "tool"
           /\ "tool_call_id" \in DOMAIN m
           /\ "name" \in DOMAIN m
           /\ \E i \in Requests :
                /\ first.tool_calls[i].id = m.tool_call_id
                /\ m.name = RequestName(i)

\* C18 (as stated): in the second call, the ids echoed in the assistant
\* message are exactly the tool_call_ids of the tool-result messages.
C18_Original == Len(calls) = 2 => EchoedIds = ResultIds

\* C18 (amended): in the second call, every tool_call_id of a tool-result
\* message is an echoed id.  The echoed ids without a result are exactly the
\* ids of the requests for undeclared tools that the two scripts skipped;
\* in the FastMCP server, which echoes only the request it executed, there
\* are none.
C18_EchoesAndResults ==
  Len(calls) = 2 =>
     /\ ResultIds \subseteq EchoedIds
     /\ EchoedIds \ ResultIds =
          IF script = "fastmcp" THEN {}
          ELSE {first.tool_calls[i].id :
                  i \in {r \in Requests : RequestName(r) # DeclaredTool(script)}}

C18_Witness ==
  /\ Len(calls) = 2
  /\ script = "groq"
  /\ Cardinality(EchoedIds) = 2
  /\ Cardinality(ResultIds) = 1

\* The run one protocol prescribes for the first reply at hand, given the
\* executor results on record: skip undeclared names, stop with an error at
\* arguments that cannot be decoded or bound and at an executor that raises,
\* answer from round two when a result was collected and from round one
\* otherwise.  n counts the executor invocations up to request i.
RECURSIVE ProtocolRun(_, _)
ProtocolRun(i, n) ==
  IF i > Len(first.tool_calls)
  THEN [transports |-> IF n = 0 THEN 1 ELSE 2, executions |-> n,
        kind |-> IF n = 0 THEN "round one" ELSE "round two"]
  ELSE IF RequestName(i) # DeclaredTool(script) THEN ProtocolRun(i + 1, n)
  ELSE IF ~WellFormed(i)
  THEN [transports |-> 1, executions |-> n, kind |-> "error"]
  ELSE IF n + 1 > Len(execLog) \/ execLog[n + 1].req # i
  THEN [transports |-> 1, executions |-> n + 1, kind |-> "no such run"]
  ELSE IF execLog[n + 1].raised
  THEN [transports |-> 1, executions |-> n + 1, kind |-> "error"]
  ELSE ProtocolRun(i + 1, n + 1)

\* What the run at hand did.
ObservedRun ==
  [transports |-> Len(calls), executions |-> Len(execLog),
   kind |-> IF pc = "raised" THEN "error"
            ELSE IF Len(calls) = 2 THEN "round two" ELSE "round one"]

\* C19 (as stated): the three orchestrators are instances of one protocol:
\* a finished run of any of them has the transport calls, the executor
\* invocations and the kind of end that the protocol gives for the same
\* first reply (requests read as declared or undeclared, well-formed or
\* not) and the same executor results.
C19_Original ==
  (Terminal /\ Len(calls) >= 1) => ObservedRun = ProtocolRun(1, 0)

\* The two call_model_with_tools functions alone.
C19_ScriptsOnly ==
  (Terminal /\ Len(calls) >= 1 /\ script # "fastmcp") =>
     ObservedRun = ProtocolRun(1, 0)

====
